---- MODULE Spec2Model ----
(***************************************************************************)
(* arbnumbra: arbitrary-precision test case generator and verifier.        *)
(*                                                                         *)
(* Strings are sequences of one-character strings over ASCII and the      *)
(* white space of Latin-1 (a TLA+ string holds no character beyond U+00FF, *)
(* so the digits and spaces of other scripts are left out).  A Decimal     *)
(* is a record [sign, digits, exp, special]: sign 0/1, digits the          *)
(* coefficient (most significant first, no leading zeros, <<0>> for zero), *)
(* exp the power of ten, as Python's decimal module holds it, and special  *)
(* the name of an infinity or NaN (<<>> for a finite number).              *)
(* Coefficients are digit sequences because the pi literal has 51          *)
(* significant digits.  The exponent of a literal that is converted fits a *)
(* machine integer; the limits of the constructor, which do not, are       *)
(* compared as digit strings.                                              *)
(*                                                                         *)
(* The one piece of shared mutable state is prec, the working precision    *)
(* of the process-wide decimal context (getcontext().prec).                *)
(***************************************************************************)
EXTENDS Integers, Sequences, FiniteSets, TLC

VARIABLES
    prec,        \* getcontext().prec
    ret,         \* the last call: its arguments, what it returned or raised
    test_cases,  \* main()'s list of TestCase records
    tampered,    \* the records of test_cases whose expected was overwritten
    report       \* the lines verify printed, in order

vars == <<prec, ret, test_cases, tampered, report>>

----------------------------------------------------------------------------
(* Characters and Python string primitives                                 *)

DigitCharSeq == <<"0", "1", "2", "3", "4", "5", "6", "7", "8", "9">>

DigitChars == {DigitCharSeq[i] : i \in DOMAIN DigitCharSeq}

DigitVal(c) == (CHOOSE i \in DOMAIN DigitCharSeq : DigitCharSeq[i] = c) - 1

DigitChar(d) == DigitCharSeq[d + 1]

UpperSeq == <<"A", "B", "C", "D", "E", "F", "G", "H", "I", "J", "K", "L", "M",
              "N", "O", "P", "Q", "R", "S", "T", "U", "V", "W", "X", "Y", "Z">>

LowerSeq == <<"a", "b", "c", "d", "e", "f", "g", "h", "i", "j", "k", "l", "m",
              "n", "o", "p", "q", "r", "s", "t", "u", "v", "w", "x", "y", "z">>

UpperChars == {UpperSeq[i] : i \in DOMAIN UpperSeq}

\* str.lower() on one character
LowerChar(c) ==
    IF c \in UpperChars
    THEN LowerSeq[CHOOSE i \in DOMAIN UpperSeq : UpperSeq[i] = c]
    ELSE c

\* str.lower()
Lower(s) == [i \in DOMAIN s |-> LowerChar(s[i])]

\* str.split(sep) for a one-character separator: the list of the parts
RECURSIVE Split(_, _)
Split(s, sep) ==
    IF \A i \in DOMAIN s : s[i] # sep
    THEN <<s>>
    ELSE LET k == CHOOSE i \in DOMAIN s :
                      s[i] = sep /\ \A j \in 1..(i - 1) : s[j] # sep
         IN  <<SubSeq(s, 1, k - 1)>> \o Split(SubSeq(s, k + 1, Len(s)), sep)

AllDigits(s) == \A i \in DOMAIN s : s[i] \in DigitChars

HasSign(s) == Len(s) > 0 /\ s[1] \in {"-", "+"}

Unsigned(s) == IF HasSign(s) THEN Tail(s) ELSE s

\* white-space characters with no escape of their own
VT == ""

FS == ""

GS == ""

RS == ""

US == ""

NEL == ""

NBSP == " "

\* the white space int() removes at both ends: tab, line feed, vertical tab,
\* form feed, carriage return, space, next line and no-break space
IntWhitespace == {"\t", "\n", VT, "\f", "\r", " ", NEL, NBSP}

\* the white space Decimal() and str.strip() remove at both ends: that of
\* int() and the four information separators
Whitespace == IntWhitespace \cup {FS, GS, RS, US}

RECURSIVE LStripOf(_, _)
LStripOf(s, ws) ==
    IF s # <<>> /\ s[1] \in ws THEN LStripOf(Tail(s), ws) ELSE s

RECURSIVE RStripOf(_, _)
RStripOf(s, ws) ==
    IF s # <<>> /\ s[Len(s)] \in ws
    THEN RStripOf(SubSeq(s, 1, Len(s) - 1), ws) ELSE s

\* str.lstrip()
LStrip(s) == LStripOf(s, Whitespace)

\* str.rstrip()
RStrip(s) == RStripOf(s, Whitespace)

\* str.strip()
Strip(s) == RStrip(LStrip(s))

\* the string int() parses
IntStrip(s) == RStripOf(LStripOf(s, IntWhitespace), IntWhitespace)

\* int() refuses a string of more digits (sys.get_int_max_str_digits())
MaxStrDigits == 4300

NotUnderscore(c) == c # "_"

\* the digit-group separators of a numeric literal taken out
RemoveUnderscores(s) == SelectSeq(s, NotUnderscore)

\* int(s) accepts white space at both ends, then an optional sign directly
\* followed by at most MaxStrDigits digits, single underscores allowed
\* between two digits
IsInt(s) ==
    LET b == Unsigned(IntStrip(s))
    IN  /\ Len(b) > 0
        /\ Len(RemoveUnderscores(b)) <= MaxStrDigits
        /\ \A i \in DOMAIN b : b[i] \in DigitChars \cup {"_"}
        /\ b[1] # "_" /\ b[Len(b)] # "_"
        /\ \A i \in 1..(Len(b) - 1) : ~(b[i] = "_" /\ b[i + 1] = "_")

RECURSIVE NatValue(_)
NatValue(s) ==
    IF s = <<>> THEN 0
    ELSE 10 * NatValue(SubSeq(s, 1, Len(s) - 1)) + DigitVal(s[Len(s)])

\* int(s) for a string IsInt accepts
IntValue(s) ==
    LET t == IntStrip(s)
        n == NatValue(RemoveUnderscores(Unsigned(t)))
    IN  IF HasSign(t) /\ t[1] = "-" THEN 0 - n ELSE n

\* str(n) of a natural number
RECURSIVE NatStr(_)
NatStr(n) ==
    IF n < 10 THEN <<DigitChar(n)>>
    ELSE NatStr(n \div 10) \o <<DigitChar(n % 10)>>

\* f"{n}" of an int
IntStr(n) == IF n < 0 THEN <<"-">> \o NatStr(0 - n) ELSE NatStr(n)

----------------------------------------------------------------------------
(* decimal.Decimal                                                         *)

Zeros(n) == [i \in 1..n |-> 0]

Max(a, b) == IF a >= b THEN a ELSE b

Min(a, b) == IF a <= b THEN a ELSE b

\* the coefficient without leading zeros; zero is <<0>>
RECURSIVE StripLeadingZeros(_)
StripLeadingZeros(ds) ==
    IF Len(ds) <= 1 THEN (IF ds = <<>> THEN <<0>> ELSE ds)
    ELSE IF ds[1] = 0 THEN StripLeadingZeros(Tail(ds))
    ELSE ds

IsZero(ds) == \A i \in DOMAIN ds : ds[i] = 0

\* coefficient + 1, with carry
RECURSIVE Increment(_)
Increment(ds) ==
    IF ds = <<>> THEN <<1>>
    ELSE IF ds[Len(ds)] < 9
         THEN SubSeq(ds, 1, Len(ds) - 1) \o <<ds[Len(ds)] + 1>>
         ELSE Increment(SubSeq(ds, 1, Len(ds) - 1)) \o <<0>>

\* ROUND_HALF_EVEN: does dropping the digits `dropped` after `kept` round up?
RoundsUp(kept, dropped) ==
    /\ dropped # <<>>
    /\ \/ dropped[1] > 5
       \/ /\ dropped[1] = 5
          /\ \/ ~IsZero(Tail(dropped))
             \/ (kept # <<>> /\ kept[Len(kept)] % 2 = 1)

\* the coefficient ds with its last k digits rounded away (half-even)
DropDigits(ds, k) ==
    LET padded  == IF Len(ds) < k THEN Zeros(k - Len(ds)) \o ds ELSE ds
        kept    == SubSeq(padded, 1, Len(padded) - k)
        dropped == SubSeq(padded, Len(padded) - k + 1, Len(padded))
    IN  IF k <= 0 THEN ds
        ELSE IF k > Len(ds) THEN <<0>>
        ELSE StripLeadingZeros(IF RoundsUp(kept, dropped)
                               THEN Increment(kept) ELSE kept)

StartsWith(s, pre) == Len(s) >= Len(pre) /\ SubSeq(s, 1, Len(pre)) = pre

\* what the Decimal constructor parses: white space at both ends and every
\* underscore are dropped, letters are read in either case
DecimalText(m) == Lower(RemoveUnderscores(Strip(m)))

InfinityNames == {<<"i", "n", "f">>, <<"i", "n", "f", "i", "n", "i", "t", "y">>}

NaNPrefix(b) ==
    IF StartsWith(b, <<"n", "a", "n">>) THEN <<"n", "a", "n">>
    ELSE IF StartsWith(b, <<"s", "n", "a", "n">>) THEN <<"s", "n", "a", "n">>
    ELSE <<>>

NaNPayload(b) == SubSeq(b, Len(NaNPrefix(b)) + 1, Len(b))

\* nan / snan with an optional payload of digits
IsNaNText(b) == NaNPrefix(b) # <<>> /\ AllDigits(NaNPayload(b))

\* the coefficient a digit string writes
DigitsOf(s) == StripLeadingZeros([i \in DOMAIN s |-> DigitVal(s[i])])

\* the constructor reads a string under the widest context there is: its
\* exponent limit is 10^18 - 1 and its precision is as large, so its least
\* exponent is 3 - 2 * 10^18.  Numbers of that size are written here as digit
\* strings, in limbs of nine digits.
Limb == 1000000000

\* n < Limb written with nine digits
LimbStr(n) == [i \in 1..(9 - Len(NatStr(n))) |-> "0"] \o NatStr(n)

\* a digit string without its leading zeros ("0" for zero)
StripZeroChars(s) ==
    LET kept == {i \in DOMAIN s : s[i] # "0"}
    IN  IF kept = {} THEN <<"0">>
        ELSE SubSeq(s, CHOOSE i \in kept : \A j \in kept : i <= j, Len(s))

\* a <= b for the numbers two digit strings without leading zeros write
DigitsLeq(a, b) ==
    \/ Len(a) < Len(b)
    \/ /\ Len(a) = Len(b)
       /\ \/ a = b
          \/ \E i \in DOMAIN a :
                 /\ DigitVal(a[i]) < DigitVal(b[i])
                 /\ \A j \in 1..(i - 1) : a[j] = b[j]

\* the greatest exponent a literal may write: the exponent less the fraction
\* digits, plus the significant digits less one, is at most 10^18 - 1
MaxExponentText(fraction_digits, significant_digits) ==
    IF fraction_digits >= significant_digits
    THEN <<"1">> \o LimbStr(0)
                \o LimbStr(fraction_digits - significant_digits)
    ELSE LimbStr(Limb - 1)
         \o LimbStr(Limb - (significant_digits - fraction_digits))

\* the size of the least exponent a literal may write: the exponent less the
\* fraction digits is at least 3 - 2 * 10^18
MinExponentText(fraction_digits) ==
    <<"1">> \o LimbStr(Limb - 1) \o LimbStr(Limb - 3 - fraction_digits)

\* Does the exponent e of a literal with the digits int and frac keep the
\* number inside the constructor's context?  Outside it the conversion would
\* round or clamp, and the constructor raises InvalidOperation
ExponentInRange(int, frac, e) ==
    LET size == StripZeroChars(Unsigned(e))
    IN  IF HasSign(e) /\ e[1] = "-"
        THEN DigitsLeq(size, MinExponentText(Len(frac)))
        ELSE DigitsLeq(size, MaxExponentText(Len(frac),
                                             Len(DigitsOf(int \o frac))))

\* digits with at most one point and at least one digit, then an optional
\* exponent: e, an optional sign, at least one digit, of a size that keeps
\* the number inside the constructor's context
IsFiniteText(b) ==
    LET parts == Split(b, "e")
        mant  == Split(parts[1], ".")
        frac  == IF Len(mant) > 1 THEN mant[2] ELSE <<>>
    IN  /\ Len(parts) <= 2
        /\ Len(mant) <= 2
        /\ \A i \in DOMAIN mant : AllDigits(mant[i])
        /\ \E i \in DOMAIN mant : Len(mant[i]) > 0
        /\ Len(parts) = 2 =>
               /\ Len(Unsigned(parts[2])) > 0
               /\ AllDigits(Unsigned(parts[2]))
               /\ ExponentInRange(mant[1], frac, parts[2])

\* Is m a string the Decimal constructor accepts?  (otherwise it raises
\* InvalidOperation)
DecimalSyntax(m) ==
    LET b == Unsigned(DecimalText(m))
    IN  b \in InfinityNames \/ IsNaNText(b) \/ IsFiniteText(b)

\* Decimal(m): exact, whatever the context precision.  special is <<>> for a
\* finite number and the name the value is printed under otherwise; the
\* digits of a NaN are its payload
DecimalOf(m) ==
    LET t     == DecimalText(m)
        b     == Unsigned(t)
        sign  == IF HasSign(t) /\ t[1] = "-" THEN 1 ELSE 0
        parts == Split(b, "e")
        mant  == Split(parts[1], ".")
        frac  == IF Len(mant) > 1 THEN mant[2] ELSE <<>>
        e     == IF Len(parts) > 1 THEN IntValue(parts[2]) ELSE 0
    IN  IF b \in InfinityNames
        THEN [sign |-> sign, digits |-> <<0>>, exp |-> 0,
              special |-> <<"I", "n", "f", "i", "n", "i", "t", "y">>]
        ELSE IF IsNaNText(b)
        THEN [sign |-> sign, digits |-> DigitsOf(NaNPayload(b)), exp |-> 0,
              special |-> IF b[1] = "s" THEN <<"s", "N", "a", "N">>
                          ELSE <<"N", "a", "N">>]
        ELSE [sign |-> sign, digits |-> DigitsOf(mant[1] \o frac),
              exp |-> e - Len(frac), special |-> <<>>]

\* the exponent limits of the default context
Emax == 999999

Emin == 0 - Emax

\* the exponent of the smallest subnormal under working precision p
Etiny(p) == Emin - p + 1

\* the largest exponent of a full-precision coefficient
Etop(p) == Emax - p + 1

Finite(sign, digits, exp) ==
    [sign |-> sign, digits |-> digits, exp |-> exp, special |-> <<>>]

Signals(raised, value) == [raised |-> raised, value |-> value]

\* the context's rounding of a finite result to working precision p: at most
\* p digits, exponent no lower than Etiny (half-even, possibly down to zero);
\* a nonzero result above Emax raises the trapped Overflow
Fix(d, p) ==
    IF IsZero(d.digits)
    THEN Signals("", [d EXCEPT !.exp = Min(Max(@, Etiny(p)), Emax)])
    ELSE LET exp_min == Max(Len(d.digits) + d.exp - p, Etiny(p))
             rounded(r) ==
                 IF Len(r) > p
                 THEN IF exp_min + 1 > Etop(p) THEN Signals("Overflow", d)
                      ELSE Signals("", [d EXCEPT !.digits = SubSeq(r, 1, p),
                                                 !.exp = exp_min + 1])
                 ELSE Signals("", [d EXCEPT !.digits = r, !.exp = exp_min])
         IN  IF Len(d.digits) + d.exp - p > Etop(p) THEN Signals("Overflow", d)
             ELSE IF d.exp >= exp_min THEN Signals("", d)
             ELSE rounded(DropDigits(d.digits, exp_min - d.exp))

\* Decimal(10) ** Decimal(e) under working precision p
Pow10(e, p) ==
    LET z == IF e > 0 THEN Min(e, p - 1) ELSE 0
    IN  Fix(Finite(0, <<1>> \o Zeros(z), e - z), p)

\* a * b under working precision p, for b a power of ten (coefficient 10^z
\* or 0)
MulPow10(a, b, p) ==
    Fix(Finite(a.sign,
               IF IsZero(b.digits) THEN <<0>>
               ELSE StripLeadingZeros(a.digits \o Zeros(Len(b.digits) - 1)),
               a.exp + b.exp), p)

\* f"{d:.{p}f}": d rescaled to exponent -p (half-even, independent of the
\* context precision), written without an exponent; no point when p = 0.
\* Infinity and NaN are written by name, a NaN with its payload
FormatF(d, p) ==
    LET sign   == IF d.sign = 1 THEN <<"-">> ELSE <<>>
        coeff  == IF IsZero(d.digits) THEN <<0>>
                  ELSE IF d.exp >= 0 - p
                  THEN d.digits \o Zeros(d.exp + p)
                  ELSE DropDigits(d.digits, 0 - p - d.exp)
        padded == IF Len(coeff) < p + 1
                  THEN Zeros(p + 1 - Len(coeff)) \o coeff ELSE coeff
        chars  == [i \in DOMAIN padded |-> DigitChar(padded[i])]
        int    == SubSeq(chars, 1, Len(chars) - p)
        frac   == SubSeq(chars, Len(chars) - p + 1, Len(chars))
    IN  IF d.special # <<>>
        THEN sign \o d.special
             \o (IF IsZero(d.digits) THEN <<>>
                 ELSE [i \in DOMAIN d.digits |-> DigitChar(d.digits[i])])
        ELSE sign \o int \o (IF p > 0 THEN <<".">> \o frac ELSE <<>>)

----------------------------------------------------------------------------
(* NumberParser                                                            *)

\* NumberParser._split_mantissa: no validation, parts beyond the second are
\* dropped
split_mantissa(mantissa, exponent) ==
    LET parts == Split(mantissa, ".")
    IN  [integer_part    |-> parts[1],
         fractional_part |-> IF Len(parts) > 1 THEN parts[2] ELSE <<>>,
         exponent        |-> exponent]

\* Does int(parts[1]) in NumberParser._split_exponent raise ValueError?
split_exponent_raises(num_str) ==
    LET parts == Split(Lower(num_str), "e")
    IN  Len(parts) > 1 /\ ~IsInt(parts[2])

\* NumberParser._split_exponent, where it does not raise: parts beyond the
\* second are dropped
split_exponent(num_str) ==
    LET parts    == Split(Lower(num_str), "e")
        exponent == IF Len(parts) > 1 THEN IntValue(parts[2]) ELSE 0
    IN  split_mantissa(parts[1], exponent)

\* NumberParser.parse
parse(num_str) == split_exponent(num_str)

----------------------------------------------------------------------------
(* NumberGenerator / TestCaseGenerator                                     *)

\* str.rstrip('0'): the string up to its last character other than '0'
RStripZeros(s) ==
    LET kept == {i \in DOMAIN s : s[i] # "0"}
    IN  IF kept = {} THEN <<>>
        ELSE SubSeq(s, 1, CHOOSE i \in kept : \A j \in kept : j <= i)

\* _remove_trailing_zeros without its rstrip('0')
remove_trailing_zeros_unstripped(number_str) ==
    IF number_str # <<>> /\ number_str[Len(number_str)] = "."
    THEN number_str \o <<"0">> ELSE number_str

\* NumberGenerator._remove_trailing_zeros
remove_trailing_zeros(number_str) ==
    LET result == RStripZeros(number_str)
    IN  IF result # <<>> /\ result[Len(result)] = "."
        THEN result \o <<"0">> ELSE result

\* the mantissa string TestCaseGenerator._calculate_number builds
mantissa_of(t) == t.integer_part \o <<".">> \o t.fractional_part

\* TestCaseGenerator._calculate_number, run under working precision p: the
\* constructor is exact (or raises InvalidOperation), the power and then the
\* product are rounded to p digits (or raise Overflow)
calculate_number(t, p) ==
    LET product(power) ==
            IF power.raised # "" THEN power
            ELSE MulPow10(DecimalOf(mantissa_of(t)), power.value, p)
    IN  IF ~DecimalSyntax(mantissa_of(t))
        THEN Signals("InvalidOperation", Finite(0, <<0>>, 0))
        ELSE product(Pow10(t.exponent, p))

\* the working precision TestCaseGenerator._format_number sets
format_prec(precision, exponent) == precision + Max(exponent, 0) + 1

\* TestCaseGenerator._format_number: the string it returns
format_number(number, precision) ==
    remove_trailing_zeros(FormatF(number, precision))

\* the TestCase dataclass
TestCase(num_str, precision, expected, radix, base) ==
    [num_str |-> num_str, precision |-> precision, expected |-> expected,
     radix |-> radix, base |-> base]

\* TestCaseGenerator.generate called when the context precision is p: the
\* exception it raises ("" for none) and where, the TestCase it returns, the
\* context precision its multiplication ran under (mul_prec) and the context
\* precision it leaves behind (prec).  _calculate_number runs before
\* _format_number assigns getcontext().prec.  The assignment raises ValueError
\* for a precision below 1, and the format specification does for a negative
\* count of decimals, after the assignment.
generate(num_str, precision, radix, base, p) ==
    LET failed(raised, raised_in) ==
            [raised |-> raised, raised_in |-> raised_in,
             case |-> TestCase(num_str, precision, <<>>, radix, base),
             mul_prec |-> 0, prec |-> p]
        formatted(t, number) ==
            IF number.raised # ""
            THEN failed(number.raised, "_calculate_number")
            ELSE IF format_prec(precision, t.exponent) < 1
            THEN failed("ValueError", "_format_number")
            ELSE IF precision < 0
            THEN [failed("ValueError", "_format_number")
                     EXCEPT !.prec = format_prec(precision, t.exponent)]
            ELSE [raised |-> "", raised_in |-> "",
                  case |-> TestCase(num_str, precision,
                                    format_number(number.value, precision),
                                    radix, base),
                  mul_prec |-> p,
                  prec |-> format_prec(precision, t.exponent)]
        calculated(t) == formatted(t, calculate_number(t, p))
    IN  IF split_exponent_raises(num_str)
        THEN failed("ValueError", "parse")
        ELSE calculated(parse(num_str))

InvalidInput ==
    <<"I", "n", "v", "a", "l", "i", "d", " ", "i", "n", "p", "u", "t">>

\* the working precision NumberGenerator._format_number sets
NumberGenerator_format_prec(precision) == precision + 1

\* NumberGenerator.generate called when the context precision is p: the
\* string it returns and the context precision it leaves behind.  The
\* constructor's InvalidOperation is caught before the precision is assigned.
NumberGenerator_generate(mantissa, precision, p) ==
    IF ~DecimalSyntax(mantissa)
    THEN [text |-> InvalidInput, prec |-> p]
    ELSE [text |-> remove_trailing_zeros(FormatF(DecimalOf(mantissa), precision)),
          prec |-> NumberGenerator_format_prec(precision)]

\* f"{random.random():.{precision}f}" for a draw whose fractional digits are
\* frac; a draw that rounds up to 1 is written with integer part 1
random_mantissa(carry, frac) ==
    (IF carry THEN <<"1">> ELSE <<"0">>)
    \o (IF frac = <<>> THEN <<>> ELSE <<".">> \o frac)

\* RandomTestCaseGenerator.generate, for the draws precision, exponent and
\* mantissa, called when the context precision is p
RandomTestCaseGenerator_generate(precision, exponent, mantissa, radix, base, p) ==
    generate(mantissa \o <<"e">> \o IntStr(exponent), precision, radix, base, p)

\* [TestCaseGenerator.generate(...) for ... in inputs], run from context
\* precision p: the calls are made in order, each under the precision the one
\* before left; the first exception ends the comprehension and no list is
\* returned
RECURSIVE generate_each(_, _, _)
generate_each(inputs, p, done) ==
    IF inputs = <<>>
    THEN [raised |-> "", raised_in |-> "", cases |-> done.cases,
          mul_precs |-> done.mul_precs, prec |-> p]
    ELSE LET step(r) ==
             IF r.raised # ""
             THEN [raised |-> r.raised, raised_in |-> r.raised_in,
                   cases |-> <<>>, mul_precs |-> <<>>, prec |-> r.prec]
             ELSE generate_each(Tail(inputs), r.prec,
                                [cases     |-> Append(done.cases, r.case),
                                 mul_precs |-> Append(done.mul_precs, r.mul_prec)])
         IN  step(generate(Head(inputs).num_str, Head(inputs).precision,
                           Head(inputs).radix, Head(inputs).base, p))

NoneValue == "None"

Input(num_str, precision) ==
    [num_str |-> num_str, precision |-> precision,
     radix |-> NoneValue, base |-> NoneValue]

\* the -f argument of main(): a path whose text is read, or None
File(text) == [given |-> TRUE, text |-> text]

NoFile == [given |-> FALSE, text |-> <<>>]

\* the characters str.splitlines ends a line at
LineBreaks == {"\n", "\r", VT, "\f", FS, GS, RS, NEL}

\* str.splitlines: the lines of a text without their line breaks, "\r\n"
\* being one break; a break at the end of the text starts no further line
RECURSIVE splitlines(_)
splitlines(text) ==
    LET breaks == {i \in DOMAIN text : text[i] \in LineBreaks}
        first  == CHOOSE i \in breaks : \A j \in breaks : i <= j
        next   == IF text[first] = "\r" /\ first < Len(text)
                     /\ text[first + 1] = "\n"
                  THEN first + 2 ELSE first + 1
    IN  IF text = <<>> THEN <<>>
        ELSE IF breaks = {} THEN <<text>>
        ELSE <<SubSeq(text, 1, first - 1)>>
             \o splitlines(SubSeq(text, next, Len(text)))

\* str.split(): the runs of characters between white space
RECURSIVE split(_)
split(s) ==
    LET t      == LStrip(s)
        spaces == {i \in DOMAIN t : t[i] \in Whitespace}
        end    == IF spaces = {} THEN Len(t) + 1
                  ELSE CHOOSE i \in spaces : \A j \in spaces : i <= j
    IN  IF t = <<>> THEN <<>>
        ELSE <<SubSeq(t, 1, end - 1)>> \o split(SubSeq(t, end, Len(t)))

\* TestCaseReader._is_valid_line
is_valid_line(line) == Len(split(Strip(line))) >= 2

\* TestCaseReader._parse_line on a valid line, called when the context
\* precision is p: int() of the third and fourth fields and of the second
\* raises ValueError, otherwise the record is generate's
parse_line(line, p) ==
    LET parts == split(Strip(line))
        radix == IF Len(parts) > 2 THEN IntValue(parts[3]) ELSE NoneValue
        base  == IF Len(parts) > 3 THEN IntValue(parts[4]) ELSE NoneValue
    IN  IF \/ Len(parts) > 2 /\ ~IsInt(parts[3])
           \/ Len(parts) > 3 /\ ~IsInt(parts[4])
           \/ ~IsInt(parts[2])
        THEN [raised |-> "ValueError", raised_in |-> "_parse_line",
              case |-> TestCase(parts[1], 0, <<>>, NoneValue, NoneValue),
              mul_prec |-> 0, prec |-> p]
        ELSE generate(parts[1], IntValue(parts[2]), radix, base, p)

\* the comprehension of TestCaseReader.read_from_file over the lines of the
\* file, run from context precision p: lines with fewer than two fields are
\* skipped, the others are parsed in order, each under the precision the one
\* before left; the first exception ends it and no list is returned
RECURSIVE parse_each(_, _, _)
parse_each(lines, p, done) ==
    IF lines = <<>>
    THEN [raised |-> "", raised_in |-> "", cases |-> done.cases,
          mul_precs |-> done.mul_precs, prec |-> p]
    ELSE IF ~is_valid_line(Head(lines))
    THEN parse_each(Tail(lines), p, done)
    ELSE LET step(r) ==
             IF r.raised # ""
             THEN [raised |-> r.raised, raised_in |-> r.raised_in,
                   cases |-> <<>>, mul_precs |-> <<>>, prec |-> r.prec]
             ELSE parse_each(Tail(lines), r.prec,
                             [cases     |-> Append(done.cases, r.case),
                              mul_precs |-> Append(done.mul_precs, r.mul_prec)])
         IN  step(parse_line(Head(lines), p))

\* TestCaseReader.read_from_file(filename, verbose) called when the context
\* precision is p; a filename of None has no read_text (AttributeError)
read_from_file(filename, p) ==
    IF ~filename.given
    THEN [raised |-> "AttributeError", raised_in |-> "read_from_file",
          cases |-> <<>>, mul_precs |-> <<>>, prec |-> p]
    ELSE parse_each(splitlines(filename.text), p,
                    [cases |-> <<>>, mul_precs |-> <<>>])

CUSTOM_INFINITY ==
    <<"C", "U", "S", "T", "O", "M", "_", "I", "N", "F", "I", "N", "I", "T", "Y">>

CUSTOM_NAN == <<"C", "U", "S", "T", "O", "M", "_", "N", "A", "N">>

\* the literals of SpecialCaseGenerator.generate_special_cases, at precision 0
special_cases ==
    <<Input(CUSTOM_INFINITY, 0), Input(<<"-">> \o CUSTOM_INFINITY, 0),
      Input(CUSTOM_NAN, 0)>>

\* the literals of SpecialCaseGenerator.generate_edge_cases, at precision 308
MaxDouble ==
    <<"1", ".", "7", "9", "7", "6", "9", "3", "1", "3", "4", "8", "6", "2",
      "3", "1", "5", "7", "e", "3", "0", "8">>

edge_cases == <<Input(MaxDouble, 308), Input(<<"-">> \o MaxDouble, 308)>>

\* the literal of SpecialCaseGenerator.generate_subnormal_cases, at precision
\* 324
MinSubnormal ==
    <<"4", ".", "9", "4", "0", "6", "5", "6", "4", "5", "8", "4", "1", "2",
      "4", "6", "5", "4", "e", "-", "3", "2", "4">>

subnormal_cases == <<Input(MinSubnormal, 324)>>

\* the pi literal of SpecialCaseGenerator.generate_pi_approximations
pi ==
    <<"3", ".", "1", "4", "1", "5", "9", "2", "6", "5", "3", "5", "8", "9", "7",
      "9", "3", "2", "3", "8", "4", "6", "2", "6", "4", "3", "3", "8", "3", "2",
      "7", "9", "5", "0", "2", "8", "8", "4", "1", "9", "7", "1", "6", "9", "3",
      "9", "9", "3", "7", "5", "1", "0">>

\* range(1, count + 1) of generate_pi_approximations, as generate inputs
pi_inputs(count) == [i \in 1..count |-> Input(pi, i)]

\* what verify prints for a record: a FAIL block always, a PASS line only
\* when verbose
printed(tc, actual, verbose) ==
    IF tc.expected = actual
    THEN IF verbose THEN <<[verdict |-> "PASS", num_str |-> tc.num_str]>>
         ELSE <<>>
    ELSE <<[verdict |-> "FAIL", num_str |-> tc.num_str,
            expected |-> tc.expected, actual |-> actual]>>

\* the comparison verify makes for a record
compared(tc, actual) ==
    [verdict |-> IF tc.expected = actual THEN "PASS" ELSE "FAIL",
     actual  |-> actual]

\* TestCaseVerifier.verify run from context precision p: the lines it prints
\* (report) and, for every record it got to, the comparison it made
\* (compared); an exception of a recomputation ends the loop
RECURSIVE verify(_, _, _, _)
verify(cases, verbose, p, out) ==
    IF cases = <<>>
    THEN [raised |-> "", raised_in |-> "", report |-> out.report,
          compared |-> out.compared, prec |-> p]
    ELSE LET tc == Head(cases)
             step(r) ==
                 IF r.raised # ""
                 THEN [raised |-> r.raised, raised_in |-> r.raised_in,
                       report |-> out.report, compared |-> out.compared,
                       prec |-> r.prec]
                 ELSE verify(Tail(cases), verbose, r.prec,
                         [report   |-> out.report
                                       \o printed(tc, r.case.expected, verbose),
                          compared |-> Append(out.compared,
                                              compared(tc, r.case.expected))])
         IN  step(generate(tc.num_str, tc.precision, tc.radix, tc.base, p))

----------------------------------------------------------------------------
(* Inputs and bounds                                                       *)

\* precisions are 0..MaxPrecision
MaxPrecision == 2

\* generate_pi_approximations is called with count in 1..MaxPi
MaxPi == 4

\* a verification batch holds at most MaxBatch records
MaxBatch == 5

\* getcontext().prec of a fresh process
DefaultPrec == 28

Precisions == 0..MaxPrecision

IntegerParts == {<<"1">>, <<"1", "2">>, <<"-", "9", "9">>}

FractionSuffixes == {<<>>, <<".", "5">>, <<".", "3", "4", "5">>}

ExponentSuffixes == {<<>>, <<"e", "1">>}

\* literals with one optional point and one optional exponent
WellFormed ==
    {i \o f \o e : i \in IntegerParts, f \in FractionSuffixes,
                   e \in ExponentSuffixes}
    \cup {<<"0">>, <<".", "5">>, <<"5", ".">>, <<"+", "1">>, <<"1", "0">>,
          <<"1", "E", "2">>, <<"-", "0", ".", "0", "5">>, <<"0", ".", "4", "5">>,
          <<"1", ".", "5", "e", "-", "1">>, <<"1", "2", "e", "-", "1">>}

\* literals with several points or exponent markers, or with other characters
MalformedLiterals ==
    {<<"1", ".", "2", ".", "3">>, <<"1", ".", ".">>,
     <<"1", "e", "2", "e", "3">>, <<"1", "e", "1", "e">>,
     <<"1", "e", "x">>, <<"1", "e">>, <<"1", "e", "1", ".", "5">>,
     <<"a", "b", "c">>, <<"1", "x">>, <<"1", ".", "x">>, <<"-">>, <<".">>,
     CUSTOM_INFINITY, <<"-">> \o CUSTOM_INFINITY, CUSTOM_NAN}

\* literals with underscores or white space, which int() and Decimal() read
\* or reject by their own rules
SeparatedLiterals ==
    {<<"1", "_", "0">>, <<" ", "1">>, <<"1", "_", "0", "0", "0", ".", "5">>,
     <<"_", "1">>, <<"1", "e", "1", "_", "0">>, <<"1", "e", " ", "2">>,
     <<"1", "e", "1", "\n">>, <<"1", "e", "_", "1">>,
     <<"\r", "1">>, <<"1", ".", "5", "\f">>, <<"1", "e", "2", "\r">>,
     <<US, "1", "e", VT, "2">>, <<"1", "e", US, "2">>,
     <<NBSP, "1", "e", "2", NEL>>}

\* a literal whose exponent has one digit more than int() reads
LongExponent == <<"1", "e", "1">> \o [i \in 1..MaxStrDigits |-> "0"]

\* literals whose exponent is at the limits of the context
LimitLiterals ==
    {<<"1", "e", "1", "0", "0", "0", "0", "0", "0">>,
     <<"1", "2", "e", "9", "9", "9", "9", "9", "9">>,
     <<"1", "e", "-", "1", "0", "0", "0", "0", "2", "7">>,
     <<"1", ".", "5", "e", "-", "1", "0", "0", "0", "0", "2", "6">>}

\* the (literal, precision) pairs generate is called with: the literals that
\* can yield a record at every precision, the others at the least and the
\* greatest, the documented input line "1.23e10 15", and the over-long
\* exponent
GenerateInputs ==
    {Input(s, p) : s \in WellFormed \cup SeparatedLiterals, p \in Precisions}
    \cup {Input(s, p) : s \in MalformedLiterals \cup LimitLiterals,
                        p \in {0, MaxPrecision}}
    \cup {Input(<<"1", ".", "2", "3", "e", "1", "0">>, 15),
          Input(LongExponent, 0)}

\* a literal one above the constructor's exponent limit: 1e(10^18)
OutOfContext == <<"1", "e", "1">> \o [i \in 1..18 |-> "0"]

\* the strings NumberGenerator.generate is called with
NumberInputs ==
    {<<"1", ".", "5", "0">>, <<"1", "e", "2">>, <<"-", "0">>,
     <<"\r", "1", "_", "0", ".", "5", RS>>, <<"i", "n", "f">>,
     <<"-", "N", "a", "N", "0", "7">>, <<"a", "b", "c">>,
     OutOfContext}

\* the draws of RandomTestCaseGenerator.generate: a precision, an exponent,
\* and a float in [0, 1) of which the fractional digits at that precision,
\* or the rounding up to 1, are kept
RandomExponents == {0 - 1, 1}

RandomDigits == {"0", "5"}

RandomFractions(precision) == [1..precision -> RandomDigits]

\* a draw can round up to 1 only where every kept fractional digit is 0
RandomCarries(frac) ==
    IF \A i \in DOMAIN frac : frac[i] = "0" THEN BOOLEAN ELSE {FALSE}

\* what main() generates a batch from: three literals that parse, one that
\* does not
BatchInputs ==
    {Input(<<"1", ".", "5">>, 1), Input(<<"1", "2", ".", "3", "4", "5">>, 2),
     Input(<<"0", ".", "2", "5">>, 1), Input(<<"a", "b", "c">>, 0)}

\* the texts of the files main() verifies from where it generated nothing:
\* two records, the second with radix and base; a record at the exponent
\* limit before one at precision 0; a blank line and a line of one field
\* before a literal that does not parse; a precision that is no integer; a
\* negative precision
FileTexts ==
    {<<"1", "2", ".", "3", "4", "5", " ", "2", "\n", "1", ".", "5", " ", "1",
       " ", "1", "0", " ", "2", "\n">>,
     <<"9", ".", "9", "9", "e", "9", "9", "9", "9", "9", "9", " ", "0", "\n",
       "1", " ", "0", "\n">>,
     <<"\n", "s", "k", "i", "p", "\n", "a", "b", "c", " ", "0", "\n">>,
     <<"1", ".", "5", " ", "1", "\r", "\n", "1", " ", "x", "\n">>,
     <<"1", "e", "1", " ", "-", "1">>}

\* the -f arguments of main()
Files == {NoFile} \cup {File(text) : text \in FileTexts}

----------------------------------------------------------------------------
(* The process: calls of the public functions sharing the context          *)

NoCall ==
    [call |-> "", arg |-> Input(<<>>, 0), raised |-> "", raised_in |-> "",
     cases |-> <<>>, mul_precs |-> <<>>, text |-> <<>>, verbose |-> FALSE,
     file |-> NoFile, during |-> "", compared |-> <<>>]

Init ==
    /\ prec = DefaultPrec
    /\ ret = NoCall
    /\ test_cases = <<>>
    /\ tampered = {}
    /\ report = <<>>

\* what a call of generate leaves in ret
GenerateCall(call, arg, r) ==
    [NoCall EXCEPT !.call = call, !.arg = arg,
                   !.raised = r.raised, !.raised_in = r.raised_in,
                   !.cases = IF r.raised = "" THEN <<r.case>> ELSE <<>>,
                   !.mul_precs = IF r.raised = "" THEN <<r.mul_prec>> ELSE <<>>]

\* what a call of a SpecialCaseGenerator method leaves in ret
ListCall(call, arg, r) ==
    [NoCall EXCEPT !.call = call, !.arg = arg,
                   !.raised = r.raised, !.raised_in = r.raised_in,
                   !.cases = r.cases, !.mul_precs = r.mul_precs]

NoCases == [cases |-> <<>>, mul_precs |-> <<>>]

\* TestCaseGenerator.generate(num_str, precision, radix, base, verbose)
Generate(num_str, precision) ==
    \E r \in {generate(num_str, precision, NoneValue, NoneValue, prec)} :
        /\ ret' = GenerateCall("generate", Input(num_str, precision), r)
        /\ prec' = r.prec
        /\ UNCHANGED <<test_cases, tampered, report>>

\* NumberGenerator.generate(mantissa, precision, radix, base, verbose)
NumberGenerate(mantissa, precision) ==
    \E r \in {NumberGenerator_generate(mantissa, precision, prec)} :
        /\ ret' = [NoCall EXCEPT !.call = "NumberGenerator.generate",
                                 !.arg = Input(mantissa, precision),
                                 !.text = r.text]
        /\ prec' = r.prec
        /\ UNCHANGED <<test_cases, tampered, report>>

\* RandomTestCaseGenerator.generate(min_precision, max_precision,
\* min_exponent, max_exponent, radix, base, verbose), with its random draws
RandomGenerate(precision, exponent, carry, frac) ==
    \E r \in {RandomTestCaseGenerator_generate(precision, exponent,
                  random_mantissa(carry, frac), NoneValue, NoneValue, prec)} :
        /\ ret' = GenerateCall("RandomTestCaseGenerator.generate",
                               Input(r.case.num_str, precision), r)
        /\ prec' = r.prec
        /\ UNCHANGED <<test_cases, tampered, report>>

\* SpecialCaseGenerator.generate_special_cases(verbose)
GenerateSpecialCases ==
    \E r \in {generate_each(special_cases, prec, NoCases)} :
        /\ ret' = ListCall("generate_special_cases", Input(<<>>, 0), r)
        /\ prec' = r.prec
        /\ UNCHANGED <<test_cases, tampered, report>>

\* SpecialCaseGenerator.generate_edge_cases(verbose)
GenerateEdgeCases ==
    \E r \in {generate_each(edge_cases, prec, NoCases)} :
        /\ ret' = ListCall("generate_edge_cases", Input(<<>>, 0), r)
        /\ prec' = r.prec
        /\ UNCHANGED <<test_cases, tampered, report>>

\* SpecialCaseGenerator.generate_subnormal_cases(verbose)
GenerateSubnormalCases ==
    \E r \in {generate_each(subnormal_cases, prec, NoCases)} :
        /\ ret' = ListCall("generate_subnormal_cases", Input(<<>>, 0), r)
        /\ prec' = r.prec
        /\ UNCHANGED <<test_cases, tampered, report>>

\* SpecialCaseGenerator.generate_pi_approximations(count, verbose)
GeneratePiApproximations(count) ==
    \E r \in {generate_each(pi_inputs(count), prec, NoCases)} :
        /\ ret' = ListCall("generate_pi_approximations", Input(pi, count), r)
        /\ prec' = r.prec
        /\ UNCHANGED <<test_cases, tampered, report>>

Next ==
    \/ \E x \in GenerateInputs : Generate(x.num_str, x.precision)
    \/ \E m \in NumberInputs, p \in Precisions : NumberGenerate(m, p)
    \/ \E p \in Precisions, e \in RandomExponents :
           \E frac \in RandomFractions(p) :
               \E carry \in RandomCarries(frac) : RandomGenerate(p, e, carry, frac)
    \/ GenerateSpecialCases
    \/ GenerateEdgeCases
    \/ GenerateSubnormalCases
    \/ \E count \in 1..MaxPi : GeneratePiApproximations(count)

Spec == Init /\ [][Next]_vars

----------------------------------------------------------------------------
(* A batch: main() generates test_cases, the stored expected strings may   *)
(* then be edited, and TestCaseVerifier.verify checks the batch            *)

Verified == ret.call = "verify"

Crashed == ret.raised # ""

\* main(): test_cases.extend(... TestCaseGenerator.generate(...) ...); an
\* exception ends the process
Extend(num_str, precision) ==
    /\ ~Verified /\ ~Crashed
    /\ Len(test_cases) < MaxBatch
    /\ \E r \in {generate(num_str, precision, NoneValue, NoneValue, prec)} :
        /\ ret' = [NoCall EXCEPT !.call = "extend",
                                 !.arg = Input(num_str, precision),
                                 !.raised = r.raised,
                                 !.raised_in = r.raised_in]
        /\ test_cases' = IF r.raised = "" THEN Append(test_cases, r.case)
                         ELSE test_cases
        /\ prec' = r.prec
        /\ UNCHANGED <<tampered, report>>

\* a stored record's expected field is overwritten (TestCase is a mutable
\* dataclass; verify takes whatever list it is given)
Tamper(i) ==
    /\ ~Verified /\ ~Crashed
    /\ i \in DOMAIN test_cases
    /\ i \notin tampered
    /\ test_cases' = [test_cases EXCEPT ![i].expected = @ \o <<"9">>]
    /\ tampered' = tampered \cup {i}
    /\ UNCHANGED <<prec, ret, report>>

\* args.file is read only where the list is empty
FilesRead == IF test_cases = <<>> THEN Files ELSE {NoFile}

\* main(), if args.ver: where test_cases is empty it is first assigned the
\* records read from args.file, then TestCaseVerifier.verify(test_cases,
\* args.verbose) runs from the precision the reading left; an exception of
\* the reading ends the process before the assignment and before verify
Verify(verbose) ==
    /\ ~Verified /\ ~Crashed
    /\ \E file \in FilesRead :
        \E read \in {IF test_cases = <<>> THEN read_from_file(file, prec)
                     ELSE [raised |-> "", raised_in |-> "",
                           cases |-> test_cases, mul_precs |-> <<>>,
                           prec |-> prec]} :
        \E r \in {IF read.raised # ""
                  THEN [raised |-> read.raised, raised_in |-> read.raised_in,
                        report |-> <<>>, compared |-> <<>>, prec |-> read.prec]
                  ELSE verify(read.cases, verbose, read.prec,
                              [report |-> <<>>, compared |-> <<>>])} :
            /\ ret' = [NoCall EXCEPT !.call = "verify", !.verbose = verbose,
                                     !.file = file,
                                     !.during = IF read.raised # ""
                                                THEN "read_from_file"
                                                ELSE "verify",
                                     !.raised = r.raised,
                                     !.raised_in = r.raised_in,
                                     !.compared = r.compared]
            /\ test_cases' = IF read.raised = "" THEN read.cases
                             ELSE test_cases
            /\ report' = r.report
            /\ prec' = r.prec
            /\ UNCHANGED tampered

NextBatch ==
    \/ \E x \in BatchInputs : Extend(x.num_str, x.precision)
    \/ \E i \in 1..MaxBatch : Tamper(i)
    \/ \E verbose \in BOOLEAN : Verify(verbose)

SpecBatch == Init /\ [][NextBatch]_vars

----------------------------------------------------------------------------
(* Properties                                                              *)

\* a literal with one optional point and one optional exponent whose parts
\* are digit strings, a leading sign aside
WellFormedLiteral(s) ==
    LET parts == Split(Lower(s), "e")
        mant  == Split(Unsigned(parts[1]), ".")
    IN  /\ Len(parts) <= 2
        /\ Len(mant) <= 2
        /\ \A i \in DOMAIN mant : AllDigits(mant[i])
        /\ \E i \in DOMAIN mant : Len(mant[i]) > 0
        /\ Len(parts) = 2 =>
               (Len(Unsigned(parts[2])) > 0 /\ AllDigits(Unsigned(parts[2])))

Count(s, c) == Cardinality({i \in DOMAIN s : s[i] = c})

\* more than one decimal point, more than one exponent marker, or a character
\* of the mantissa or of the exponent that is no digit (a leading sign aside)
Malformed(s) ==
    LET parts == Split(Lower(s), "e")
    IN  \/ Count(parts[1], ".") > 1
        \/ Len(parts) > 2
        \/ \E i \in DOMAIN Unsigned(parts[1]) :
               Unsigned(parts[1])[i] \notin DigitChars \cup {"."}
        \/ /\ Len(parts) > 1
           /\ \E i \in DOMAIN Unsigned(parts[2]) :
                  Unsigned(parts[2])[i] \notin DigitChars

\* mantissa x 10^exponent with every digit kept
ExactValue(t) ==
    [DecimalOf(mantissa_of(t)) EXCEPT !.exp = @ + t.exponent]

\* the exact value rounded half-even to `precision` fractional digits, then
\* trailing-zero trimmed
ExactExpected(num_str, precision) ==
    remove_trailing_zeros(FormatF(ExactValue(parse(num_str)), precision))

Returned == ret.raised = "" /\ ret.cases # <<>>

\* C1: generate's expected is the literal's exact value rounded half-even to
\* the requested fractional digits and trimmed, whatever calls came before
C1_ExactRescaling ==
    (ret.call = "generate" /\ Returned /\ WellFormedLiteral(ret.arg.num_str))
        => ret.cases[1].expected
               = ExactExpected(ret.arg.num_str, ret.arg.precision)

\* C2: a generate call with the inputs of the call before it returns the same
\* expected string
C2_HistoryIndependent ==
    [][(/\ ret.call = "generate" /\ ret'.call = "generate"
        /\ ret.raised = "" /\ ret'.raised = ""
        /\ ret'.arg = ret.arg)
           => ret'.cases[1].expected = ret.cases[1].expected]_vars

\* C3: every record verify recomputes that was generated and left as it was
\* compares equal to its recomputation (PASS)
C3_RoundTripPasses ==
    Verified =>
        \A i \in DOMAIN ret.compared :
            i \notin tampered => ret.compared[i].verdict = "PASS"

\* <integer>.<at-least-one-digit>
HasPointForm(s) ==
    \E k \in DOMAIN s :
        /\ s[k] = "."
        /\ k > 1 /\ s[k - 1] \in DigitChars
        /\ k < Len(s)
        /\ \A j \in DOMAIN s : j # k =>
               (s[j] \in DigitChars \/ (j = 1 /\ s[j] = "-"))

\* C4: for a well-formed literal and any precision >= 0, expected has a point,
\* an integer part before it and at least one digit after it
C4_PointForm ==
    (ret.call = "generate" /\ Returned /\ WellFormedLiteral(ret.arg.num_str))
        => HasPointForm(ret.cases[1].expected)

\* a final '0' is the only digit after the point
NoTrailingZero(s) ==
    ~(/\ Len(s) >= 2
      /\ s[Len(s)] = "0"
      /\ s[Len(s) - 1] # "."
      /\ \E k \in DOMAIN s : s[k] = ".")

\* C5: no expected string any generate call returns ends in '0' after another
\* fractional digit
C5_TrailingZeroInvariant ==
    \A i \in DOMAIN ret.cases : NoTrailingZero(ret.cases[i].expected)

\* generate("1.5", 2): the formatted "1.50" was trimmed to "1.5"
C5_Witness ==
    /\ ret.call = "generate" /\ Returned
    /\ ret.arg = Input(<<"1", ".", "5">>, 2)
    /\ ret.cases[1].expected = <<"1", ".", "5">>

\* the FAIL blocks of the records from i on whose stored expected differs
\* from the recomputed one, in order
RECURSIVE Mismatches(_)
Mismatches(i) ==
    IF i > Len(ret.compared) \/ i > Len(test_cases) THEN <<>>
    ELSE (IF test_cases[i].expected # ret.compared[i].actual
          THEN <<[verdict  |-> "FAIL",
                  num_str  |-> test_cases[i].num_str,
                  expected |-> test_cases[i].expected,
                  actual   |-> ret.compared[i].actual]>>
          ELSE <<>>)
         \o Mismatches(i + 1)

IsFailure(line) == line.verdict = "FAIL"

\* C6: once verify is entered it reaches the end of the batch whatever fails
\* on the way, and the failures it prints are, in order, those of exactly the
\* records whose stored expected differs from the recomputed one
C6_VerifyFailSoft ==
    (Verified /\ ret.during = "verify") =>
        /\ ret.raised = ""
        /\ Len(ret.compared) = Len(test_cases)
        /\ SelectSeq(report, IsFailure) = Mismatches(1)

\* C7: a malformed literal passes the parser and fails in the rescale step
\* with the decimal module's InvalidOperation; none yields a record
C7_MalformedRejected ==
    (ret.call = "generate" /\ Malformed(ret.arg.num_str))
        => /\ ret.raised = "InvalidOperation"
           /\ ret.raised_in = "_calculate_number"
           /\ ret.cases = <<>>

\* C8: generate_special_cases returns three records, each sentinel's expected
\* being the sentinel's own text
C8_SentinelsRendered ==
    ret.call = "generate_special_cases"
        => /\ ret.raised = ""
           /\ Len(ret.cases) = Len(special_cases)
           /\ \A i \in DOMAIN ret.cases :
                  ret.cases[i].expected = special_cases[i].num_str

\* C9: in the list generate_pi_approximations returns, the record at p1 is
\* the record at p2 rounded half-even to p1 fractional digits, for p1 < p2
C9_PiMonotone ==
    (ret.call = "generate_pi_approximations" /\ Returned)
        => /\ Len(ret.cases) = ret.arg.precision
           /\ \A p1, p2 \in DOMAIN ret.cases :
                  p1 < p2 =>
                      /\ ret.cases[p1].precision = p1
                      /\ ret.cases[p1].expected
                             = remove_trailing_zeros(
                                   FormatF(DecimalOf(ret.cases[p2].expected), p1))

\* C10: the multiplication of every generate call runs under the working
\* precision precision + max(exponent, 0) + 1 of that call
C10_MultiplyUnderOwnPrecision ==
    Returned =>
        \A i \in DOMAIN ret.cases :
            ret.mul_precs[i]
                = format_prec(ret.cases[i].precision,
                              parse(ret.cases[i].num_str).exponent)

====
